---- MODULE Spec2Model ----
(***************************************************************************)
(* Model of sbibm/tasks/gaussian_mixture/task.py: the GaussianMixture     *)
(* task (uniform prior, two-component Gaussian simulator, rejection        *)
(* sampler for the reference posterior).                                   *)
(*                                                                         *)
(* Reals are fixed-point numbers in tenths: 1.0 is 10, 0.1 is 1.           *)
(* A 2-D tensor is a sequence of rows, a row a sequence of numbers.        *)
(* A draw from a distribution is a nondeterministic choice over a small    *)
(* set of standardised outcomes (Eps for a Normal, 0..RandDen-1 for the    *)
(* uniform generator).                                                     *)
(***************************************************************************)
EXTENDS Integers, Sequences, FiniteSets

\* ------------------------------------------------------------------ bounds
MaxDim == 2
MaxBound == 1
MaxBatch == 2
MaxSamples == 3
MaxCounter == 4
RandDen == 2

\* Standardised Normal outcomes (loc + scale * e).
Eps == {-1, 1}
\* Parameter rows offered to the simulator: (v, 2v, ..., dv) for v in ParamVals.
ParamVals == {-10, 5}
ParamRows(d) == {[j \in 1..d |-> v * j] : v \in ParamVals}
\* Observation numbers, and the observation rows offered (stored or passed).
NumObservations == 1..2
ObsRows(d) ==
    {[j \in 1..d |-> 0], [j \in 1..d |-> IF j = 1 THEN 9 ELSE 0],
     [j \in 1..d |-> 30]}
ObsTensors(d) == {<<r>> : r \in ObsRows(d)}

\* None for an optional integer argument, and for an optional tensor.
NoInt == -1
NoTensor == <<>>

\* ------------------------------------------------------- fixed-point reals
Fix(n) == n * 10
FMul(a, b) == (a * b) \div 10

\* ------------------------------------------------------------- the state
VARIABLES
    dim_parameters,     \* Task.dim_parameters (= dim)
    prior_bound,        \* the constructor's prior_bound argument, in units
    prior_params,       \* self.prior_params
    simulator_params,   \* self.simulator_params
    pc,                 \* where the caller is: idle, prior, simulator, loop,
                        \* returned, assert_failed, error
    prior_arg,          \* prior(): num_samples as passed (NoInt: omitted)
    prior_samples,      \* prior(): the tensor returned
    sim_input,          \* simulator(): the argument, [rank, value]
    parameters,         \* simulator(): after atleast_2d
    mixture_idx,        \* simulator(): one index per row
    data_dist,          \* simulator(): the Normal's [loc, scale]
    data,               \* simulator(): the tensor returned
    num_samples,        \* _sample_reference_posterior: argument
    num_observation,    \* _sample_reference_posterior: argument
    observation_arg,    \* _sample_reference_posterior: observation as passed
    observation,        \* the local observation (passed, or looked up)
    lookups,            \* number of get_observation calls made by the call
    counter,            \* _sample_reference_posterior: counter
    drawn,              \* number of "posterior_sample" draws made by the call
    reference_posterior_samples,  \* the accepted list (of 1 x dim tensors)
    sample,             \* the last candidate drawn
    appended,           \* whether the last candidate was appended
    acceptance_rate,    \* <<numerator, denominator>> of the reported rate
    result              \* the tensor returned

config == <<dim_parameters, prior_bound, prior_params, simulator_params>>
prior_vars == <<prior_arg, prior_samples>>
sim_vars == <<sim_input, parameters, mixture_idx, data_dist, data>>
post_vars == <<num_samples, num_observation, observation_arg, observation,
               lookups, counter,
               drawn, reference_posterior_samples, sample, appended,
               acceptance_rate, result>>
vars == <<config, pc, prior_vars, sim_vars, post_vars>>

\* --------------------------------------------------------- the constructor
Ones(d) == [j \in 1..d |-> Fix(1)]

PriorParams(d, b) ==
    [low  |-> [j \in 1..d |-> FMul(-Fix(b), Ones(d)[j])],
     high |-> [j \in 1..d |-> FMul(Fix(b), Ones(d)[j])]]

SimulatorParams ==
    [mixture_locs_factor |-> <<10, 10>>,
     mixture_scales      |-> <<10, 1>>,
     mixture_weights     |-> <<5, 5>>]

NoPrior == prior_arg = NoInt /\ prior_samples = NoTensor
NoSim ==
    /\ sim_input = [rank |-> 0, value |-> NoTensor]
    /\ parameters = NoTensor
    /\ mixture_idx = <<>>
    /\ data_dist = [loc |-> NoTensor, scale |-> NoTensor]
    /\ data = NoTensor
NoPost ==
    /\ num_samples = 0
    /\ num_observation = NoInt
    /\ observation_arg = NoTensor
    /\ observation = NoTensor
    /\ lookups = 0
    /\ counter = 0
    /\ drawn = 0
    /\ reference_posterior_samples = <<>>
    /\ sample = NoTensor
    /\ appended = FALSE
    /\ acceptance_rate = <<0, 0>>
    /\ result = NoTensor

Init ==
    /\ \E d \in 1..MaxDim, b \in 1..MaxBound :
          /\ dim_parameters = d
          /\ prior_bound = b
          /\ prior_params = PriorParams(d, b)
    /\ simulator_params = SimulatorParams
    /\ pc = "idle"
    /\ NoPrior /\ NoSim /\ NoPost

\* Mutant of TaskFrame: a method renormalises the mixture weights in place.
TaskFrameWritesWeights ==
    /\ simulator_params' =
          [simulator_params EXCEPT !.mixture_weights = <<10, 0>>]
    /\ UNCHANGED <<dim_parameters, prior_bound, prior_params>>

\* The methods read self.* and never assign it.
TaskFrame == UNCHANGED config

\* A call starts when no call is running.
CanCall == pc = "idle"
ClearPrior == prior_arg' = NoInt /\ prior_samples' = NoTensor
ClearSim ==
    /\ sim_input' = [rank |-> 0, value |-> NoTensor]
    /\ parameters' = NoTensor
    /\ mixture_idx' = <<>>
    /\ data_dist' = [loc |-> NoTensor, scale |-> NoTensor]
    /\ data' = NoTensor
ClearPost ==
    /\ num_samples' = 0
    /\ num_observation' = NoInt
    /\ observation_arg' = NoTensor
    /\ observation' = NoTensor
    /\ lookups' = 0
    /\ counter' = 0
    /\ drawn' = 0
    /\ reference_posterior_samples' = <<>>
    /\ sample' = NoTensor
    /\ appended' = FALSE
    /\ acceptance_rate' = <<0, 0>>
    /\ result' = NoTensor

\* ------------------------------------------------------------- get_prior
\* Mutant of UniformSample: the offset is added to the upper bound.
UniformSampleFromHigh(low, high, k) == high + (k * (high - low)) \div RandDen

\* Uniform.rsample: low + rand * (high - low), rand in [0, 1) (here k/RandDen).
UniformSample(low, high, k) == low + (k * (high - low)) \div RandDen

\* prior_dist.expand_by([n]): n rows, one value per coordinate of low/high.
PriorShape(n) == [rows |-> n, cols |-> Len(prior_params.low)]

Prior ==
    /\ CanCall
    /\ \E arg \in {NoInt} \cup (0..MaxBatch) :
          LET n == IF arg = NoInt THEN 1 ELSE arg
              shp == PriorShape(n)
          IN  /\ prior_arg' = arg
              /\ \E u \in [1..shp.rows -> [1..shp.cols -> 0..(RandDen - 1)]] :
                    prior_samples' =
                        [i \in 1..shp.rows |->
                            [j \in 1..shp.cols |->
                                UniformSample(prior_params.low[j],
                                              prior_params.high[j], u[i][j])]]
    /\ pc' = "prior"
    /\ UNCHANGED <<sim_vars, post_vars>>
    /\ TaskFrame

\* --------------------------------------------------------- get_simulator
\* Shapes and broadcasting of 2-D tensors.
Rows(A) == Len(A)
Cols(A) == IF Len(A) = 0 THEN 0 ELSE Len(A[1])
Broadcastable(A, B) ==
    /\ (Rows(A) = Rows(B) \/ Rows(A) = 1 \/ Rows(B) = 1)
    /\ (Cols(A) = Cols(B) \/ Cols(A) = 1 \/ Cols(B) = 1)
Max(a, b) == IF a >= b THEN a ELSE b
BRows(A, B) == IF Rows(A) = 1 THEN Rows(B) ELSE Max(Rows(A), Rows(B))
BCols(A, B) == IF Cols(A) = 1 THEN Cols(B) ELSE Max(Cols(A), Cols(B))
At(A, i, j) ==
    A[IF Rows(A) = 1 THEN 1 ELSE i][IF Cols(A) = 1 THEN 1 ELSE j]

\* torch.atleast_2d: a 1-D vector becomes a batch of one row.
Atleast2d(x) == IF x.rank = 1 THEN <<x.value>> ELSE x.value

\* v[idx] for a 1-D index tensor, and t[:, None].
Gather(v, idx) == [i \in 1..Len(idx) |-> v[idx[i]]]
Column(v) == [i \in 1..Len(v) |-> <<v[i]>>]

\* Categorical(probs = tile(weights[None], (n, 1))): n rows of weights, one
\* index per row, each index one whose weight is positive.
CategoricalProbs(p) == [i \in 1..Rows(p) |-> simulator_params.mixture_weights]
CategoricalSupport(probs) ==
    {ix \in [1..Len(probs) -> 1..2] :
        \A i \in 1..Len(probs) : probs[i][ix[i]] > 0}

\* loc = mixture_locs_factor[idx][:, None] * parameters
NormalLoc(p, idx) ==
    LET f == Column(Gather(simulator_params.mixture_locs_factor, idx))
    IN  [i \in 1..BRows(f, p) |->
            [j \in 1..BCols(f, p) |-> FMul(At(f, i, j), At(p, i, j))]]

\* Mutant of NormalScale: the first row's index selects every row's scale.
NormalScaleFirstIdx(idx) ==
    Column([i \in 1..Len(idx) |-> simulator_params.mixture_scales[idx[1]]])

\* scale = mixture_scales[idx][:, None]
NormalScale(idx) == Column(Gather(simulator_params.mixture_scales, idx))

\* Normal(loc, scale).sample(): loc + scale * e elementwise, broadcast.
NormalSample(loc, scale, e) ==
    [i \in 1..BRows(loc, scale) |->
        [j \in 1..BCols(loc, scale) |->
            At(loc, i, j) + At(scale, i, j) * At(e, i, j)]]

SimInputs(d) ==
    {[rank |-> 1, value |-> r] : r \in ParamRows(d)}
    \cup {[rank |-> 2, value |-> b] :
            b \in UNION {[1..n -> ParamRows(d)] : n \in 1..MaxBatch}}

Simulator ==
    /\ CanCall
    /\ \E x \in SimInputs(dim_parameters) :
          LET p == Atleast2d(x)
          IN  /\ sim_input' = x
              /\ parameters' = p
              /\ \E ix \in CategoricalSupport(CategoricalProbs(p)) :
                    LET loc == NormalLoc(p, ix)
                        scale == NormalScale(ix)
                    IN  /\ mixture_idx' = ix
                        /\ data_dist' = [loc |-> loc, scale |-> scale]
                        /\ Broadcastable(loc, scale)
                        /\ \E e \in [1..BRows(loc, scale) ->
                                       [1..BCols(loc, scale) -> Eps]] :
                              data' = NormalSample(loc, scale, e)
    /\ pc' = "simulator"
    /\ UNCHANGED <<prior_vars, post_vars>>
    /\ TaskFrame

\* ------------------------------------------- _sample_reference_posterior
\* Mutant of ArgsOk: the second assertion is missing.
ArgsOkFirstOnly(num_obs, obs) == ~(num_obs = NoInt /\ obs = NoTensor)

\* The two assertions on the optional arguments.
ArgsOk(num_obs, obs) ==
    /\ ~(num_obs = NoInt /\ obs = NoTensor)
    /\ ~(num_obs # NoInt /\ obs # NoTensor)

\* Mutants of LoopCondition: an off-by-one comparison; an iteration cap.
LoopConditionOffByOne(acc, n) == Len(acc) <= n
LoopConditionCapped(acc, n) == Len(acc) < n /\ counter < 2

\* while len(reference_posterior_samples) < num_samples
LoopCondition(acc, n) == Len(acc) < n

\* Categorical(mixture_weights): an index whose weight is positive.
MixtureIdxSupport == {k \in 1..2 : simulator_params.mixture_weights[k] > 0}

\* loc = mixture_locs_factor[idx] * observation; scale = mixture_scales[idx]
PosteriorLoc(k, obs) ==
    [i \in 1..Rows(obs) |->
        [j \in 1..Cols(obs) |->
            FMul(simulator_params.mixture_locs_factor[k], obs[i][j])]]
PosteriorScale(k) == <<<<simulator_params.mixture_scales[k]>>>>

\* Uniform.log_prob, per coordinate: log(lb * ub) - log(high - low) with
\* lb = (low <= v), ub = (high > v); minus infinity exactly when lb * ub = 0.
InSupport(v, j) ==
    (IF prior_params.low[j] <= v THEN 1 ELSE 0)
        * (IF prior_params.high[j] > v THEN 1 ELSE 0) = 1

\* torch.isinf(self.prior_dist.log_prob(sample).sum())
IsOutsidePrior(s) ==
    \E i \in 1..Rows(s) : \E j \in 1..Cols(s) : ~InSupport(s[i][j], j)

\* torch.cat of a list of 2-D tensors: their rows, in order.
RECURSIVE Cat(_)
Cat(l) == IF l = <<>> THEN <<>> ELSE Head(l) \o Cat(Tail(l))

\* Tensor.__contains__: (element == self).any(), with broadcasting.
Contains(t, element) ==
    \E i \in 1..BRows(element, t) : \E j \in 1..BCols(element, t) :
        At(element, i, j) = At(t, i, j)

\* is_duplicate (False for an empty list)
IsDuplicate(s, acc) ==
    IF Len(acc) > 0 THEN Contains(Cat(acc), s) ELSE FALSE

\* Mutant of Accepts: the prior-support test is missing.
AcceptsInsideOrNot(s, acc) == ~IsDuplicate(s, acc)

\* if not is_outside_prior and not is_duplicate: append
Accepts(s, acc) == ~IsOutsidePrior(s) /\ ~IsDuplicate(s, acc)

\* Mutant of AcceptanceRate: the quotient is inverted.
AcceptanceRateInverted(n, c) == <<c, n>>

\* acceptance_rate = float(num_samples / counter)
AcceptanceRate(n, c) == <<n, c>>

PosteriorCall ==
    /\ CanCall
    /\ \E n \in 0..MaxSamples,
          num_obs \in {NoInt} \cup NumObservations,
          obs \in {NoTensor} \cup ObsTensors(dim_parameters) :
          /\ num_samples' = n
          /\ num_observation' = num_obs
          /\ observation_arg' = obs
          /\ IF ~ArgsOk(num_obs, obs)
             THEN /\ pc' = "assert_failed"
                  /\ observation' = obs
                  /\ lookups' = 0
             ELSE /\ pc' = "loop"
                  /\ IF num_obs # NoInt
                     THEN /\ observation' \in ObsTensors(dim_parameters)
                          /\ lookups' = 1
                     ELSE /\ observation' = obs
                          /\ lookups' = 0
    /\ counter' = 0
    /\ drawn' = 0
    /\ reference_posterior_samples' = <<>>
    /\ sample' = NoTensor
    /\ appended' = FALSE
    /\ acceptance_rate' = <<0, 0>>
    /\ result' = NoTensor
    /\ UNCHANGED <<prior_vars, sim_vars>>
    /\ TaskFrame

Iterate ==
    /\ pc = "loop"
    /\ LoopCondition(reference_posterior_samples, num_samples)
    /\ counter < MaxCounter
    /\ counter' = counter + 1
    /\ \E k \in MixtureIdxSupport :
          LET loc == PosteriorLoc(k, observation)
              scale == PosteriorScale(k)
          IN  \E e \in [1..Rows(loc) -> [1..Cols(loc) -> Eps]] :
                 LET s == NormalSample(loc, scale, e)
                 IN  /\ sample' = s
                     /\ drawn' = drawn + 1
                     /\ IF Accepts(s, reference_posterior_samples)
                        THEN /\ reference_posterior_samples' =
                                    Append(reference_posterior_samples, s)
                             /\ appended' = TRUE
                        ELSE /\ reference_posterior_samples' =
                                    reference_posterior_samples
                             /\ appended' = FALSE
    /\ UNCHANGED <<pc, num_samples, num_observation, observation_arg,
                   observation, lookups, acceptance_rate, result>>
    /\ UNCHANGED <<prior_vars, sim_vars>>
    /\ TaskFrame

\* The loop has ended: torch.cat (which raises on an empty list), the rate,
\* the return.
PosteriorReturn ==
    /\ pc = "loop"
    /\ ~LoopCondition(reference_posterior_samples, num_samples)
    /\ IF reference_posterior_samples = <<>>
       THEN /\ pc' = "error"
            /\ UNCHANGED <<acceptance_rate, result>>
       ELSE /\ result' = Cat(reference_posterior_samples)
            /\ acceptance_rate' = AcceptanceRate(num_samples, counter)
            /\ pc' = "returned"
    /\ UNCHANGED <<num_samples, num_observation, observation_arg,
                   observation, lookups, counter, drawn,
                   reference_posterior_samples, sample, appended>>
    /\ UNCHANGED <<prior_vars, sim_vars>>
    /\ TaskFrame

\* The caller is done with what a call returned or raised: the call's locals
\* and its result are gone, the task object remains.
Discard ==
    /\ pc \in {"prior", "simulator", "returned", "assert_failed", "error"}
    /\ pc' = "idle"
    /\ ClearPrior /\ ClearSim /\ ClearPost
    /\ TaskFrame

Next ==
    \/ Prior
    \/ Simulator
    \/ PosteriorCall
    \/ Iterate
    \/ PosteriorReturn
    \/ Discard

Spec == Init /\ [][Next]_vars

\* ================================================================= claims
InPosterior == pc \in {"loop", "returned", "error"}
Accepted == reference_posterior_samples
\* Every coordinate of a row has finite prior log-probability.
InsideBounds(row) ==
    \A j \in 1..Len(row) :
        -Fix(prior_bound) <= row[j] /\ row[j] < Fix(prior_bound)
\* Exactly one of num_observation and observation was passed.
ExactlyOneSupplied ==
    (num_observation = NoInt) # (observation_arg = NoTensor)
\* The simulator's argument as a batch of rows.
SimBatch == IF sim_input.rank = 1 THEN <<sim_input.value>> ELSE sim_input.value
\* The loop is running and short of num_samples accepted samples.
Looping == pc = "loop" /\ Len(Accepted) < num_samples
\* The accepted list before the last iteration; an exact duplicate.
AcceptedBefore ==
    IF appended THEN SubSeq(Accepted, 1, Len(Accepted) - 1) ELSE Accepted
ExactDuplicate(s, acc) == \E i \in 1..Len(acc) : acc[i] = s
\* The candidates the proposal can produce for the observation, and those
\* of them inside the prior support.
Candidates ==
    {NormalSample(PosteriorLoc(k, observation), PosteriorScale(k), <<e>>) :
        k \in MixtureIdxSupport, e \in [1..dim_parameters -> Eps]}
InsideCandidates == {c \in Candidates : InsideBounds(c[1])}

\* C1: the sampler returns exactly num_samples samples: the accepted list
\* never holds more than num_samples entries, the loop is left only with
\* exactly num_samples entries, and the result is the accepted list
\* (concatenated), with num_samples rows.
C1_ReturnsExactlyN ==
    /\ InPosterior => Len(Accepted) <= num_samples
    /\ pc \in {"returned", "error"} => Len(Accepted) = num_samples
    /\ pc = "returned" =>
          /\ Len(result) = num_samples
          /\ \A i \in 1..num_samples : <<result[i]>> = Accepted[i]
C1_Witness ==
    pc = "returned" /\ num_samples = MaxSamples /\ counter > num_samples

\* C2: in every state of the loop and in the result, every accepted sample
\* has all coordinates inside the prior bounds (finite prior log-probability)
\* and is identical to no sample accepted before it.
C2_AcceptedInsideAndDistinct ==
    /\ InPosterior =>
          /\ \A i \in 1..Len(Accepted) :
                /\ Len(Accepted[i]) = 1
                /\ Len(Accepted[i][1]) = dim_parameters
                /\ InsideBounds(Accepted[i][1])
          /\ \A i \in 1..Len(Accepted) : \A k \in 1..(i - 1) :
                Accepted[i] # Accepted[k]
    /\ pc = "returned" =>
          /\ \A i \in 1..Len(result) : InsideBounds(result[i])
          /\ \A i \in 1..Len(result) : \A k \in 1..(i - 1) :
                result[i] # result[k]
\* Two samples are accepted and a candidate equal to one of them was rejected.
C2_Witness ==
    /\ pc = "loop" /\ dim_parameters = MaxDim
    /\ Len(Accepted) >= 2
    /\ ~appended /\ ExactDuplicate(sample, Accepted)

\* C3: the call fails its precondition exactly when both or neither of
\* num_observation and observation are supplied; when it fails, no
\* observation was looked up, no candidate drawn and no sample accepted.
C3_MutuallyExclusiveArgs ==
    /\ pc = "assert_failed" =>
          /\ ~ExactlyOneSupplied
          /\ lookups = 0 /\ drawn = 0 /\ counter = 0
          /\ sample = NoTensor /\ Accepted = <<>> /\ result = NoTensor
    /\ InPosterior => ExactlyOneSupplied
C3_Witness ==
    /\ pc = "assert_failed"
    /\ num_observation # NoInt /\ observation_arg # NoTensor

\* C4: the reported acceptance rate is num_samples / total attempts: the
\* counter counts every candidate drawn, the accepted samples never outnumber
\* it, num_samples is the number accepted, and the rate lies in (0, 1].
C4_AcceptanceRate ==
    /\ InPosterior => counter = drawn /\ Len(Accepted) <= counter
    /\ pc = "returned" =>
          /\ acceptance_rate = <<num_samples, drawn>>
          /\ num_samples = Len(Accepted)
          /\ 0 < acceptance_rate[1]
          /\ acceptance_rate[1] <= acceptance_rate[2]
C4_Witness ==
    pc = "returned" /\ drawn > num_samples /\ num_samples >= 2

\* C5: prior(num_samples = n) returns n draws (1 when n is omitted), each a
\* vector of length dim with every coordinate in [-prior_bound, prior_bound].
C5_PriorSamplesInBox ==
    pc = "prior" =>
        /\ Len(prior_samples) = (IF prior_arg = NoInt THEN 1 ELSE prior_arg)
        /\ \A i \in 1..Len(prior_samples) :
              /\ Len(prior_samples[i]) = dim_parameters
              /\ \A j \in 1..dim_parameters :
                    /\ -Fix(prior_bound) <= prior_samples[i][j]
                    /\ prior_samples[i][j] <= Fix(prior_bound)
C5_Witness ==
    /\ pc = "prior" /\ prior_arg = MaxBatch /\ dim_parameters = MaxDim
    /\ prior_samples[1][1] # prior_samples[2][1]
\* C6: the simulator draws one mixture index per input row and returns a
\* tensor with the input's number of rows and its dimensionality, row i
\* drawn from Normal(mixture_locs_factor[idx_i] * parameters[i],
\* mixture_scales[idx_i]); a 1-D input counts as a batch of one row.
C6_SimulatorShapeAndLaw ==
    pc = "simulator" =>
        /\ Len(mixture_idx) = Len(SimBatch)
        /\ Len(data) = Len(SimBatch)
        /\ \A i \in 1..Len(SimBatch) :
              /\ Len(data[i]) = Len(SimBatch[i])
              /\ \A j \in 1..Len(SimBatch[i]) :
                    LET mean == (simulator_params.mixture_locs_factor
                                    [mixture_idx[i]] * SimBatch[i][j]) \div 10
                        sd == simulator_params.mixture_scales[mixture_idx[i]]
                    IN  /\ At(data_dist.loc, i, j) = mean
                        /\ At(data_dist.scale, i, j) = sd
                        /\ \E e \in Eps : data[i][j] = mean + sd * e
C6_Witness ==
    /\ pc = "simulator" /\ sim_input.rank = 2
    /\ Len(data) = MaxBatch /\ dim_parameters = MaxDim
    /\ mixture_idx[1] # mixture_idx[2]

\* C7: the loop has no iteration cap and no timeout. While fewer than
\* num_samples samples are accepted the next iteration can always run and the
\* call can neither return nor fail; an iteration that rejects its candidate
\* adds one to the counter, leaves the accepted list as it was and stays in
\* the loop; the loop is left only with num_samples samples accepted.
C7_NoIterationCap ==
    /\ [](Looping => /\ ~ENABLED PosteriorReturn
                     /\ (counter < MaxCounter => ENABLED Iterate))
    /\ [][Looping =>
            /\ pc' = "loop"
            /\ counter' = counter + 1
            /\ (~appended' => reference_posterior_samples' = Accepted)]_vars
    /\ [][pc = "loop" /\ pc' # "loop" => Len(Accepted) = num_samples]_vars
\* Every candidate so far was rejected and the loop is still running.
C7_Witness ==
    /\ Looping /\ num_samples >= 1
    /\ counter = MaxCounter /\ drawn = MaxCounter
    /\ Accepted = <<>>
    /\ IsOutsidePrior(sample)

\* C8: the task configuration holds the constructor's values after any
\* sequence of calls, returned or failed.
C8_ConfigImmutable ==
    /\ dim_parameters \in 1..MaxDim
    /\ prior_bound \in 1..MaxBound
    /\ DOMAIN prior_params = {"low", "high"}
    /\ prior_params.low = [j \in 1..dim_parameters |-> -Fix(prior_bound)]
    /\ prior_params.high = [j \in 1..dim_parameters |-> Fix(prior_bound)]
    /\ simulator_params =
          [mixture_locs_factor |-> <<10, 10>>,
           mixture_scales      |-> <<10, 1>>,
           mixture_weights     |-> <<5, 5>>]
C8_Witness ==
    /\ pc = "returned" /\ Len(result) = MaxSamples
    /\ Len(prior_params.low) = MaxDim

\* C9: a candidate is rejected exactly when it lies outside the prior support
\* or equals an already accepted sample in all coordinates, and is appended
\* otherwise.
C9_RejectsExactlyOutsideOrExactDuplicate ==
    (InPosterior /\ sample # NoTensor) =>
        /\ appended <=>
              (InsideBounds(sample[1]) /\ ~ExactDuplicate(sample, AcceptedBefore))
        /\ appended => Accepted = Append(AcceptedBefore, sample)

====
